---- MODULE Spec2Model ----
(***************************************************************************)
(* Model of moarchiving/get_archive.py: the two factory functions          *)
(* get_mo_archive and get_cmo_archive.                                     *)
(*                                                                         *)
(* An optional argument is a sequence of length 0 (None) or 1 (the value). *)
(* An objective vector, a constraint vector and a reference point are      *)
(* sequences of numbers; the factories read nothing of them but len(), so  *)
(* every coordinate is 0.  infos is handed to the constructors untouched.  *)
(***************************************************************************)
EXTENDS Integers, Sequences, FiniteSets, TLC

\* ---------------------------------------------------------------- bounds
\* longest vector, reference point and declared n_obj
MaxDim == 5
\* longest list_of_f_vals and list_of_g_vals
MaxVecs == 2
\* threads racing on the first call
NThreads == 2

\* ------------------------------------------------------- optional values
None == <<>>
Some(x) == <<x>>
IsNone(o) == Len(o) = 0
IsSome(o) == Len(o) = 1
Val(o) == o[1]

\* ------------------------------------------------------------ the inputs
Vec(d) == [i \in 1..d |-> 0]
Vectors == {Vec(d) : d \in 0..MaxDim}
RECURSIVE ListsOf(_, _)
ListsOf(S, k) ==
  IF k = 0 THEN {<<>>}
  ELSE ListsOf(S, k - 1) \cup {Append(l, x) : l \in {m \in ListsOf(S, k - 1) : Len(m) = k - 1}, x \in S}
FValLists == ListsOf(Vectors, MaxVecs)
GValLists == ListsOf({Vec(1)}, MaxVecs)
Opt(S) == {None} \cup {Some(x) : x \in S}
Taus == {1, 2}
Infos == {None, Some(<<"info">>)}
ArgSpace ==
  [list_of_f_vals : Opt(FValLists), list_of_g_vals : Opt(GValLists),
   reference_point : Opt(Vectors), infos : Infos, n_obj : Opt(0..MaxDim),
   tau : Taus]

\* ----------------------------------------------------------------- state
VARIABLES fractions, moAttrs, cmoAttrs, args, call, threads
vars == <<fractions, moAttrs, cmoAttrs, args, call, threads>>

Unset == "unset"
NoError == "none"
ErrRefPoint == "ValueError: n_obj does not match first element of list_of_f_vals"
ErrUnsupported == "ValueError: Unsupported number of objectives"
ErrGWithoutF == "ValueError: list_of_f_vals must be provided if list_of_g_vals is provided"
ErrFWithoutG == "ValueError: list_of_g_vals must be provided if list_of_f_vals is provided"
ErrFGLength == "ValueError: list_of_f_vals and list_of_g_vals must have the same length"
WarnFVals == "n_obj does not match the number of objectives in list_of_f_vals"
WarnRefPoint == "n_obj does not match the number of objectives in reference_point"

\* list_of_f_vals is not None and len(list_of_f_vals) > 0
FNonEmpty(f) == IsSome(f) /\ Len(Val(f)) > 0

\* ------------------------------------------------- precision attributes
\* try: fractions.Fraction / except: float
MoFinalType == IF fractions THEN "Fraction" ELSE "float"
MoCompType == IF fractions THEN "Fraction" ELSE "float"
CmoFinalType == IF fractions THEN "Fraction" ELSE "float"
\* variant: the computation type falls back although fractions is there
CmoCompTypeFloat == "float"
CmoCompType == IF fractions THEN "Fraction" ELSE "float"

\* if not hasattr(f, name): f.name = type
\* variant: the assignment is skipped
CacheAttrNeverSet(cur, type) == cur
CacheAttr(cur, type) == IF cur = Unset THEN type ELSE cur

MoPrecision(attrs) ==
  [final |-> CacheAttr(attrs.final, MoFinalType),
   comp |-> CacheAttr(attrs.comp, MoCompType)]
CmoPrecision(attrs) ==
  [final |-> CacheAttr(attrs.final, CmoFinalType),
   comp |-> CacheAttr(attrs.comp, CmoCompType)]

\* ---------------------------------------- get_mo_archive: n_obj resolution
Res(n, w, e) == [n_obj |-> n, warnings |-> w, raised |-> e]

MoDefaultNObj(f, rp, n) ==
  IF ~FNonEmpty(f) /\ IsNone(n) /\ IsNone(rp) THEN Some(2) ELSE n

MoDeriveNObj(f, rp, n) ==
  IF IsNone(n)
  THEN IF FNonEmpty(f) THEN Len(Val(f)[1]) ELSE Len(Val(rp))
  ELSE Val(n)

\* variant: a reference point of another length is only warned about
MoBothGivenLenient(f, rp, n) ==
  IF Len(Val(rp)) # Len(Val(f)[1]) \/ n # Len(Val(f)[1])
  THEN Res(Len(Val(f)[1]), <<WarnFVals>>, NoError)
  ELSE Res(n, <<>>, NoError)
MoBothGiven(f, rp, n) ==
  IF Len(Val(rp)) # Len(Val(f)[1]) THEN Res(n, <<>>, ErrRefPoint)
  ELSE IF n # Len(Val(f)[1]) THEN Res(Len(Val(f)[1]), <<WarnFVals>>, NoError)
  ELSE Res(n, <<>>, NoError)

MoOnlyFVals(f, n) ==
  IF n # Len(Val(f)[1]) THEN Res(Len(Val(f)[1]), <<WarnFVals>>, NoError)
  ELSE Res(n, <<>>, NoError)

\* variant: the warning is emitted but n_obj is not overridden
MoOnlyRefPointKeepsDeclared(rp, n) ==
  IF n # Len(Val(rp)) THEN Res(n, <<WarnRefPoint>>, NoError)
  ELSE Res(n, <<>>, NoError)
MoOnlyRefPoint(rp, n) ==
  IF n # Len(Val(rp)) THEN Res(Len(Val(rp)), <<WarnRefPoint>>, NoError)
  ELSE Res(n, <<>>, NoError)

MoCheckNObj(f, rp, n) ==
  IF FNonEmpty(f) /\ IsSome(rp) THEN MoBothGiven(f, rp, n)
  ELSE IF FNonEmpty(f) THEN MoOnlyFVals(f, n)
  ELSE IF IsSome(rp) THEN MoOnlyRefPoint(rp, n)
  ELSE Res(n, <<>>, NoError)

MoResolve(a) ==
  MoCheckNObj(a.list_of_f_vals, a.reference_point,
              MoDeriveNObj(a.list_of_f_vals, a.reference_point,
                           MoDefaultNObj(a.list_of_f_vals, a.reference_point, a.n_obj)))

\* ----------------------------------------------- get_mo_archive: dispatch
NoCtor == "none"
\* variant: the 3- and 4-objective constructors are swapped
MoConstructorSwapped(n) ==
  IF n = 2 THEN "MOArchive2d"
  ELSE IF n = 3 THEN "MOArchive4d"
  ELSE IF n = 4 THEN "MOArchive3d"
  ELSE NoCtor
MoConstructor(n) ==
  IF n = 2 THEN "MOArchive2d"
  ELSE IF n = 3 THEN "MOArchive3d"
  ELSE IF n = 4 THEN "MOArchive4d"
  ELSE NoCtor

CtorCall(name, a, g, n, tau, attrs) ==
  [ctor |-> name, list_of_f_vals |-> a.list_of_f_vals, list_of_g_vals |-> g,
   reference_point |-> a.reference_point, infos |-> a.infos, n_obj |-> n,
   tau |-> tau,
   hypervolume_final_float_type |-> attrs.final,
   hypervolume_computation_float_type |-> attrs.comp]

MoCtorCall(a, n, attrs) == CtorCall(MoConstructor(n), a, None, None, None, attrs)

MoBody(a, attrs) ==
  LET r == MoResolve(a) IN
  IF r.raised # NoError
  THEN [entry |-> "get_mo_archive", resolved |-> FALSE, n_obj |-> r.n_obj,
        warnings |-> r.warnings, raised |-> r.raised, ctors |-> <<>>]
  ELSE IF MoConstructor(r.n_obj) = NoCtor
  THEN [entry |-> "get_mo_archive", resolved |-> TRUE, n_obj |-> r.n_obj,
        warnings |-> r.warnings, raised |-> ErrUnsupported, ctors |-> <<>>]
  ELSE [entry |-> "get_mo_archive", resolved |-> TRUE, n_obj |-> r.n_obj,
        warnings |-> r.warnings, raised |-> NoError,
        ctors |-> <<MoCtorCall(a, r.n_obj, attrs)>>]

\* --------------------------------------- get_cmo_archive: n_obj resolution
\* variant: the default is taken although a reference point is given
CmoDefaultNObjIgnoresRef(f, rp, n) ==
  IF ~FNonEmpty(f) /\ IsNone(n) THEN Some(2) ELSE n
CmoDefaultNObj(f, rp, n) ==
  IF ~FNonEmpty(f) /\ IsNone(n) /\ IsNone(rp) THEN Some(2) ELSE n

CmoDeriveNObj(f, rp, n) ==
  IF IsNone(n)
  THEN IF FNonEmpty(f) THEN Len(Val(f)[1]) ELSE Len(Val(rp))
  ELSE Val(n)

CmoBothGiven(f, rp, n) ==
  IF Len(Val(rp)) # Len(Val(f)[1]) THEN Res(n, <<>>, ErrRefPoint)
  ELSE IF n # Len(Val(f)[1]) THEN Res(Len(Val(f)[1]), <<WarnFVals>>, NoError)
  ELSE Res(n, <<>>, NoError)

\* variant: the warning is emitted but n_obj is not overridden
CmoOnlyFValsKeepsDeclared(f, n) ==
  IF n # Len(Val(f)[1]) THEN Res(n, <<WarnFVals>>, NoError)
  ELSE Res(n, <<>>, NoError)
CmoOnlyFVals(f, n) ==
  IF n # Len(Val(f)[1]) THEN Res(Len(Val(f)[1]), <<WarnFVals>>, NoError)
  ELSE Res(n, <<>>, NoError)

\* variant: a declared n_obj of another length than the reference point raises
CmoOnlyRefPointRaises(rp, n) ==
  IF n # Len(Val(rp)) THEN Res(n, <<>>, ErrRefPoint)
  ELSE Res(n, <<>>, NoError)
CmoOnlyRefPoint(rp, n) ==
  IF n # Len(Val(rp)) THEN Res(Len(Val(rp)), <<WarnRefPoint>>, NoError)
  ELSE Res(n, <<>>, NoError)

CmoCheckNObj(f, rp, n) ==
  IF FNonEmpty(f) /\ IsSome(rp) THEN CmoBothGiven(f, rp, n)
  ELSE IF FNonEmpty(f) THEN CmoOnlyFVals(f, n)
  ELSE IF IsSome(rp) THEN CmoOnlyRefPoint(rp, n)
  ELSE Res(n, <<>>, NoError)

CmoResolve(a) ==
  CmoCheckNObj(a.list_of_f_vals, a.reference_point,
               CmoDeriveNObj(a.list_of_f_vals, a.reference_point,
                             CmoDefaultNObj(a.list_of_f_vals, a.reference_point, a.n_obj)))

\* ------------------------------------- get_cmo_archive: pairing, dispatch
\* variant: the outer lengths are not compared
CmoPairingNoLength(f, g) ==
  IF IsNone(f) /\ IsSome(g) THEN ErrGWithoutF
  ELSE IF IsSome(f) /\ IsNone(g) THEN ErrFWithoutG
  ELSE NoError
CmoPairing(f, g) ==
  IF IsNone(f) /\ IsSome(g) THEN ErrGWithoutF
  ELSE IF IsSome(f) /\ IsNone(g) THEN ErrFWithoutG
  ELSE IF IsSome(f) /\ IsSome(g) /\ Len(Val(f)) # Len(Val(g)) THEN ErrFGLength
  ELSE NoError

\* variant: the declared n_obj is passed on instead of the resolved one
CmoCtorCallDeclared(a, n, attrs) ==
  CtorCall("CMOArchive", a, a.list_of_g_vals, a.n_obj, Some(a.tau), attrs)
CmoCtorCall(a, n, attrs) ==
  CtorCall("CMOArchive", a, a.list_of_g_vals, Some(n), Some(a.tau), attrs)

CmoBody(a, attrs) ==
  LET r == CmoResolve(a)
      p == CmoPairing(a.list_of_f_vals, a.list_of_g_vals) IN
  IF r.raised # NoError
  THEN [entry |-> "get_cmo_archive", resolved |-> FALSE, n_obj |-> r.n_obj,
        warnings |-> r.warnings, raised |-> r.raised, ctors |-> <<>>]
  ELSE IF p # NoError
  THEN [entry |-> "get_cmo_archive", resolved |-> TRUE, n_obj |-> r.n_obj,
        warnings |-> r.warnings, raised |-> p, ctors |-> <<>>]
  ELSE [entry |-> "get_cmo_archive", resolved |-> TRUE, n_obj |-> r.n_obj,
        warnings |-> r.warnings, raised |-> NoError,
        ctors |-> <<CmoCtorCall(a, r.n_obj, attrs)>>]

\* ------------------------------------------------------ the entry points
MoCall(a) ==
  /\ moAttrs' = MoPrecision(moAttrs)
  /\ call' = MoBody(a, MoPrecision(moAttrs))
  /\ UNCHANGED <<fractions, cmoAttrs, threads>>

CmoCall(a) ==
  /\ cmoAttrs' = CmoPrecision(cmoAttrs)
  /\ call' = CmoBody(a, CmoPrecision(cmoAttrs))
  /\ UNCHANGED <<fractions, moAttrs, threads>>

NoAttrs == [final |-> Unset, comp |-> Unset]
NoCall ==
  [entry |-> "none", resolved |-> FALSE, n_obj |-> 0, warnings |-> <<>>,
   raised |-> NoError, ctors |-> <<>>]
Threads == 1..NThreads
\* sets counts the attribute assignments a thread has made (history only).
Thread(e, pc) ==
  [entry |-> e, pc |-> pc, final |-> Unset, sets |-> 0, raised |-> NoError,
   ctors |-> <<>>]
Idle == [t \in Threads |-> Thread("none", "idle")]

\* Calls on one argument tuple, drawn at the start.
Init ==
  /\ fractions \in BOOLEAN
  /\ moAttrs = NoAttrs
  /\ cmoAttrs = NoAttrs
  /\ args \in ArgSpace
  /\ call = NoCall
  /\ threads = Idle

get_mo_archive == MoCall(args) /\ UNCHANGED args
get_cmo_archive == CmoCall(args) /\ UNCHANGED args

Next == get_mo_archive \/ get_cmo_archive
Spec == Init /\ [][Next]_vars

\* ------------------------------------- calls with changing arguments
SeqArgs ==
  {a \in ArgSpace :
     /\ a.list_of_f_vals \in {None, Some(<<>>), Some(<<Vec(2)>>), Some(<<Vec(MaxDim)>>)}
     /\ a.list_of_g_vals \in {None, Some(<<Vec(1)>>)}
     /\ a.reference_point \in {None, Some(Vec(2)), Some(Vec(3))}
     /\ a.infos = None
     /\ a.n_obj \in {None, Some(2), Some(3)}}
NoArgs ==
  [list_of_f_vals |-> None, list_of_g_vals |-> None, reference_point |-> None,
   infos |-> None, n_obj |-> None, tau |-> 1]

InitSeq ==
  /\ fractions \in BOOLEAN
  /\ moAttrs = NoAttrs
  /\ cmoAttrs = NoAttrs
  /\ args = NoArgs
  /\ call = NoCall
  /\ threads = Idle

get_mo_archive_seq == \E a \in SeqArgs : args' = a /\ MoCall(a)
get_cmo_archive_seq == \E a \in SeqArgs : args' = a /\ CmoCall(a)

NextSeq == get_mo_archive_seq \/ get_cmo_archive_seq
SpecSeq == InitSeq /\ [][NextSeq]_vars

\* ---------------------------- threads racing on the first call
\* Each thread makes one call; hasattr, the assignment, and the two
\* attribute reads of the constructor's keyword arguments are separate steps.
ConcArgs ==
  {a \in SeqArgs : a.list_of_g_vals = None /\ a.n_obj = None /\ a.tau = 1}
Entries == {"get_mo_archive", "get_cmo_archive"}

AttrsOf(e) == IF e = "get_mo_archive" THEN moAttrs ELSE cmoAttrs
FinalTypeOf(e) == IF e = "get_mo_archive" THEN MoFinalType ELSE CmoFinalType
CompTypeOf(e) == IF e = "get_mo_archive" THEN MoCompType ELSE CmoCompType
BodyOf(e, a, attrs) ==
  IF e = "get_mo_archive" THEN MoBody(a, attrs) ELSE CmoBody(a, attrs)
SetAttrs(e, new) ==
  IF e = "get_mo_archive"
  THEN moAttrs' = new /\ UNCHANGED cmoAttrs
  ELSE cmoAttrs' = new /\ UNCHANGED moAttrs
Goto(t, pc) == threads' = [threads EXCEPT ![t].pc = pc]

InitConc ==
  /\ fractions \in BOOLEAN
  /\ moAttrs = NoAttrs
  /\ cmoAttrs = NoAttrs
  /\ args \in ConcArgs
  /\ call = NoCall
  /\ threads \in [Threads -> {Thread(e, "has_final") : e \in Entries}]

HasAttrFinal(t) ==
  /\ threads[t].pc = "has_final"
  /\ Goto(t, IF AttrsOf(threads[t].entry).final = Unset THEN "set_final" ELSE "has_comp")
  /\ UNCHANGED <<fractions, moAttrs, cmoAttrs, args, call>>

SetFinal(t) ==
  /\ threads[t].pc = "set_final"
  /\ SetAttrs(threads[t].entry,
              [AttrsOf(threads[t].entry) EXCEPT !.final = FinalTypeOf(threads[t].entry)])
  /\ threads' = [threads EXCEPT ![t].pc = "has_comp", ![t].sets = @ + 1]
  /\ UNCHANGED <<fractions, args, call>>

HasAttrComp(t) ==
  /\ threads[t].pc = "has_comp"
  /\ Goto(t, IF AttrsOf(threads[t].entry).comp = Unset THEN "set_comp" ELSE "body")
  /\ UNCHANGED <<fractions, moAttrs, cmoAttrs, args, call>>

SetComp(t) ==
  /\ threads[t].pc = "set_comp"
  /\ SetAttrs(threads[t].entry,
              [AttrsOf(threads[t].entry) EXCEPT !.comp = CompTypeOf(threads[t].entry)])
  /\ threads' = [threads EXCEPT ![t].pc = "body", ![t].sets = @ + 1]
  /\ UNCHANGED <<fractions, args, call>>

\* n_obj resolution and the checks up to the constructor call
Validate(t) ==
  /\ threads[t].pc = "body"
  /\ LET b == BodyOf(threads[t].entry, args, NoAttrs) IN
       threads' = [threads EXCEPT ![t].pc = IF b.raised = NoError THEN "read_final" ELSE "done",
                                  ![t].raised = b.raised]
  /\ UNCHANGED <<fractions, moAttrs, cmoAttrs, args, call>>

ReadFinal(t) ==
  /\ threads[t].pc = "read_final"
  /\ threads' = [threads EXCEPT ![t].pc = "construct",
                                ![t].final = AttrsOf(threads[t].entry).final]
  /\ UNCHANGED <<fractions, moAttrs, cmoAttrs, args, call>>

Construct(t) ==
  /\ threads[t].pc = "construct"
  /\ LET e == threads[t].entry
         b == BodyOf(e, args, [final |-> threads[t].final, comp |-> AttrsOf(e).comp]) IN
       threads' = [threads EXCEPT ![t].pc = "done", ![t].ctors = b.ctors]
  /\ UNCHANGED <<fractions, moAttrs, cmoAttrs, args, call>>

NextConc ==
  \E t \in Threads :
    \/ HasAttrFinal(t)
    \/ SetFinal(t)
    \/ HasAttrComp(t)
    \/ SetComp(t)
    \/ Validate(t)
    \/ ReadFinal(t)
    \/ Construct(t)
SpecConc == InitConc /\ [][NextConc]_vars

\* =================================================================== claims
Called == call.entry \in Entries
ArgF == args.list_of_f_vals
ArgRp == args.reference_point
FirstLen == Len(Val(ArgF)[1])
RefLen == Len(Val(ArgRp))
RefPointMismatch == FNonEmpty(ArgF) /\ IsSome(ArgRp) /\ RefLen # FirstLen
InvalidConfiguration == {ErrRefPoint, ErrGWithoutF, ErrFWithoutG, ErrFGLength}

\* C1: in both factories and for every declared n_obj, a non-empty
\* list_of_f_vals with a reference_point of another length than its first
\* vector makes the call raise the mismatch ValueError, with no constructor
\* invoked.
C1_RefPointMismatchRaises ==
  (Called /\ RefPointMismatch) =>
    (call.raised = ErrRefPoint /\ call.ctors = <<>> /\ call.warnings = <<>>)
C1_Witness ==
  /\ call.entry = "get_cmo_archive"
  /\ RefPointMismatch
  /\ IsSome(args.n_obj) /\ Val(args.n_obj) = FirstLen
  /\ call.raised = ErrRefPoint

\* C2 as stated: whenever a declared n_obj differs from the length of the
\* first vector of a non-empty list_of_f_vals, a warning is emitted and the
\* resolved count is that length.
C2_Original ==
  (Called /\ IsSome(args.n_obj) /\ FNonEmpty(ArgF) /\ FirstLen # Val(args.n_obj)) =>
    (WarnFVals \in {call.warnings[i] : i \in DOMAIN call.warnings}
     /\ call.n_obj = FirstLen)
\* C2 amended: the same, provided the reference point is absent or as long
\* as the first vector; with a reference point of another length the call
\* raises and no warning is emitted.
C2_DeclaredOverriddenByVectors ==
  (Called /\ IsSome(args.n_obj) /\ FNonEmpty(ArgF) /\ FirstLen # Val(args.n_obj)) =>
    IF IsNone(ArgRp) \/ RefLen = FirstLen
    THEN call.warnings = <<WarnFVals>> /\ call.resolved /\ call.n_obj = FirstLen
    ELSE call.warnings = <<>> /\ call.raised = ErrRefPoint
C2_Witness ==
  /\ call.entry = "get_cmo_archive"
  /\ IsSome(args.n_obj) /\ Val(args.n_obj) = 2
  /\ FNonEmpty(ArgF) /\ FirstLen = 3 /\ IsNone(ArgRp)
  /\ call.warnings = <<WarnFVals>> /\ call.n_obj = 3

\* C3: get_mo_archive with resolved count 2, 3 or 4 invokes exactly one
\* constructor, the bi-, tri- or quad-objective one; with any other resolved
\* count it raises the unsupported-objectives ValueError and invokes none.
C3_MoDispatch ==
  (call.entry = "get_mo_archive" /\ call.resolved) =>
    IF call.n_obj \in {2, 3, 4}
    THEN /\ call.raised = NoError
         /\ Len(call.ctors) = 1
         /\ call.ctors[1].ctor =
              (CASE call.n_obj = 2 -> "MOArchive2d"
                 [] call.n_obj = 3 -> "MOArchive3d"
                 [] call.n_obj = 4 -> "MOArchive4d")
    ELSE call.raised = ErrUnsupported /\ call.ctors = <<>>
C3_Witness ==
  /\ call.entry = "get_mo_archive" /\ call.resolved
  /\ call.n_obj = 4 /\ Len(call.ctors) = 1 /\ call.ctors[1].ctor = "MOArchive4d"
C3_WitnessUnsupported ==
  /\ call.entry = "get_mo_archive" /\ call.resolved
  /\ call.n_obj = 5 /\ call.raised = ErrUnsupported

\* C4: get_cmo_archive given exactly one of list_of_f_vals and
\* list_of_g_vals, or both with different outer lengths, raises a
\* configuration ValueError and never constructs CMOArchive.
BadPairing ==
  \/ IsSome(ArgF) /\ IsNone(args.list_of_g_vals)
  \/ IsNone(ArgF) /\ IsSome(args.list_of_g_vals)
  \/ /\ IsSome(ArgF) /\ IsSome(args.list_of_g_vals)
     /\ Len(Val(ArgF)) # Len(Val(args.list_of_g_vals))
C4_PairingRaises ==
  (call.entry = "get_cmo_archive" /\ BadPairing) =>
    (call.raised \in InvalidConfiguration /\ call.ctors = <<>>)
C4_Witness ==
  /\ call.entry = "get_cmo_archive"
  /\ IsSome(ArgF) /\ IsSome(args.list_of_g_vals)
  /\ Len(Val(ArgF)) = 2 /\ Len(Val(args.list_of_g_vals)) = 1
  /\ call.raised = ErrFGLength

\* C5: after an entry point's first call, failed or not, its cached precision
\* pair is set; no later call to either entry point changes it, and every
\* constructor receives the cached pair.
IsSet(attrs) == attrs.final # Unset /\ attrs.comp # Unset
PassesCached(attrs) ==
  \A i \in DOMAIN call.ctors :
    /\ call.ctors[i].hypervolume_final_float_type = attrs.final
    /\ call.ctors[i].hypervolume_computation_float_type = attrs.comp
C5_CacheSetAfterCall ==
  /\ (call.entry = "get_mo_archive" => IsSet(moAttrs) /\ PassesCached(moAttrs))
  /\ (call.entry = "get_cmo_archive" => IsSet(cmoAttrs) /\ PassesCached(cmoAttrs))
C5_CacheStep ==
  /\ (IsSet(moAttrs) => moAttrs' = moAttrs)
  /\ (IsSet(cmoAttrs) => cmoAttrs' = cmoAttrs)
  /\ (~IsSet(moAttrs) /\ moAttrs' = moAttrs => call'.entry # "get_mo_archive")
  /\ (~IsSet(cmoAttrs) /\ cmoAttrs' = cmoAttrs => call'.entry # "get_cmo_archive")
C5_PrecisionCacheStable == [](C5_CacheSetAfterCall) /\ [][C5_CacheStep]_vars
C5_Witness ==
  /\ call.entry = "get_mo_archive" /\ call.raised = ErrUnsupported
  /\ IsSet(moAttrs) /\ IsSet(cmoAttrs)

\* C6 as stated: after resolution without hard failure, n_obj equals the
\* length of every element of a non-empty list_of_f_vals and the length of a
\* given reference_point.
C6_Original ==
  (Called /\ call.resolved) =>
    /\ (FNonEmpty(ArgF) => \A i \in DOMAIN Val(ArgF) : Len(Val(ArgF)[i]) = call.n_obj)
    /\ (IsSome(ArgRp) => RefLen = call.n_obj)
\* C6 amended: after resolution without hard failure, n_obj equals the length
\* of the first element of a non-empty list_of_f_vals and the length of a
\* given reference_point.
C6_ResolvedMatchesFirstAndRef ==
  (Called /\ call.resolved) =>
    /\ (FNonEmpty(ArgF) => FirstLen = call.n_obj)
    /\ (IsSome(ArgRp) => RefLen = call.n_obj)
C6_Witness ==
  /\ Called /\ call.resolved
  /\ FNonEmpty(ArgF) /\ Len(Val(ArgF)) = 2 /\ Len(Val(ArgF)[2]) # FirstLen
  /\ IsSome(ArgRp) /\ IsSome(args.n_obj) /\ Val(args.n_obj) # RefLen
  /\ call.n_obj = RefLen

\* C7: without a declared n_obj, a call that does not fail resolves to the
\* length of the first vector if list_of_f_vals is non-empty, else to the
\* length of the reference point if given, else to 2, and emits no warning.
C7_UndeclaredResolution ==
  (Called /\ IsNone(args.n_obj) /\ call.raised = NoError) =>
    /\ call.n_obj = (IF FNonEmpty(ArgF) THEN FirstLen
                     ELSE IF IsSome(ArgRp) THEN RefLen ELSE 2)
    /\ call.warnings = <<>>
C7_Witness ==
  /\ call.entry = "get_mo_archive" /\ IsNone(args.n_obj) /\ call.raised = NoError
  /\ ~FNonEmpty(ArgF) /\ IsSome(ArgRp) /\ call.n_obj = 3
C7_WitnessDefault ==
  /\ Called /\ IsNone(args.n_obj) /\ call.raised = NoError
  /\ IsSome(ArgF) /\ ~FNonEmpty(ArgF) /\ IsNone(ArgRp) /\ call.n_obj = 2

\* C8: with a declared n_obj, list_of_f_vals absent or empty and a reference
\* point given: if the lengths differ the reference-point warning is emitted,
\* resolution completes with len(reference_point) and no mismatch error; if
\* they agree no warning is emitted and the count stays as declared.
C8_DeclaredVsRefPoint ==
  (Called /\ IsSome(args.n_obj) /\ ~FNonEmpty(ArgF) /\ IsSome(ArgRp)) =>
    /\ call.resolved /\ call.raised # ErrRefPoint
    /\ IF RefLen # Val(args.n_obj)
       THEN call.warnings = <<WarnRefPoint>> /\ call.n_obj = RefLen
       ELSE call.warnings = <<>> /\ call.n_obj = Val(args.n_obj)
C8_Witness ==
  /\ call.entry = "get_cmo_archive" /\ IsSome(args.n_obj) /\ ~FNonEmpty(ArgF)
  /\ IsSome(ArgRp) /\ RefLen = 3 /\ Val(args.n_obj) = 2
  /\ call.raised = NoError /\ call.warnings = <<WarnRefPoint>>

\* C9: get_cmo_archive never raises the unsupported-objectives error, and a
\* call that passes the dimension and pairing checks invokes CMOArchive
\* exactly once, with the resolved n_obj (whatever its value), the caller's
\* tau and the cached precision pair.
C9_CmoSingleConstructor ==
  (call.entry = "get_cmo_archive") =>
    /\ call.raised # ErrUnsupported
    /\ (~RefPointMismatch /\ ~BadPairing) =>
         /\ call.raised = NoError
         /\ Len(call.ctors) = 1
         /\ call.ctors[1].ctor = "CMOArchive"
         /\ call.ctors[1].n_obj = Some(call.n_obj)
         /\ call.ctors[1].tau = Some(args.tau)
         /\ call.ctors[1].hypervolume_final_float_type = cmoAttrs.final
         /\ call.ctors[1].hypervolume_computation_float_type = cmoAttrs.comp
         /\ call.ctors[1].list_of_f_vals = ArgF
         /\ call.ctors[1].list_of_g_vals = args.list_of_g_vals
C9_Witness ==
  /\ call.entry = "get_cmo_archive" /\ call.raised = NoError
  /\ call.n_obj = 5 /\ args.tau = 2 /\ IsSome(args.n_obj) /\ Val(args.n_obj) = 3
  /\ Len(call.ctors) = 1

\* C10: threads racing on the first call of one entry point all pass the same
\* precision pair to the constructor, the pair is not mixed, and once all
\* threads are done the cache holds that pair; the race only repeats the
\* assignment.
Constructed(t) == threads[t].ctors # <<>>
PairOf(t) ==
  [final |-> threads[t].ctors[1].hypervolume_final_float_type,
   comp |-> threads[t].ctors[1].hypervolume_computation_float_type]
AllDone == \A t \in Threads : threads[t].pc = "done"
C10_RaceConverges ==
  \A t \in Threads :
    /\ Constructed(t) =>
         /\ PairOf(t).final # Unset
         /\ PairOf(t).final = PairOf(t).comp
         /\ \A u \in Threads :
              (Constructed(u) /\ threads[u].entry = threads[t].entry) => PairOf(u) = PairOf(t)
         /\ AllDone => AttrsOf(threads[t].entry) = PairOf(t)
    /\ (AllDone /\ threads[t].pc = "done") =>
         /\ IsSet(AttrsOf(threads[t].entry))
         /\ AttrsOf(threads[t].entry).final = AttrsOf(threads[t].entry).comp
C10_Witness ==
  /\ AllDone
  /\ \A t \in Threads :
       /\ threads[t].entry = "get_cmo_archive"
       /\ Constructed(t)
  /\ \E t, u \in Threads : t # u /\ threads[t].sets = 2 /\ threads[u].sets = 2
====
